---------------------------- MODULE Spec2Model ----------------------------
(***************************************************************************)
(* Model of the amortization engine of advanced-emi-calculator and of the  *)
(* component that calls it:                                                *)
(*   src/utils/calculator.ts  calculateEMI, generateAmortizationSchedule   *)
(*   src/App.tsx              validateInputs, handleCalculate, the change  *)
(*                            handlers, the debounce effect                *)
(*                                                                         *)
(* Numbers.  The source computes on JavaScript numbers: binary             *)
(* floating-point, every operation rounded to nearest, ties to even.  The  *)
(* model keeps that arithmetic and narrows the significand from 53 bits to *)
(* Prec bits.  A number is an exact rational <<numerator, denominator>> in *)
(* lowest terms whose value has at most Prec significant bits; Fl rounds   *)
(* an exact result to such a number, and every operator of the source is   *)
(* the exact operation followed by Fl (FAdd, FSub, FMul, FDiv, FPow).      *)
(* The exponent range is not bounded (no overflow to Infinity, no          *)
(* underflow); a zero denominator stands for the non-finite result of a    *)
(* division by zero (<<1,0>> Infinity, <<-1,0>> -Infinity, <<0,0>> NaN).   *)
(* Decimal literals and inputs are rounded on entry (Num), as a literal    *)
(* such as 0.01 is.                                                        *)
(*                                                                         *)
(* generateAmortizationSchedule is modelled twice from the same loop body  *)
(* (LoopBody): as a state machine that executes one loop iteration per     *)
(* step (Generate, LoopIter, Return), and as the recursive operator        *)
(* generateAmortizationSchedule, used where a claim compares the schedule  *)
(* of a call with the schedule of another call.                            *)
(***************************************************************************)
EXTENDS Integers, Sequences, FiniteSets

(***************************************************************************)
(* Bounds of the model.                                                    *)
(***************************************************************************)
\* largest tenure (in months) passed to the two functions
MaxTenure == 3

\* significand bits of a number (53 in the source's arithmetic)
Prec == 10

(***************************************************************************)
(* Exact rational arithmetic, the values behind the rounded operators.     *)
(***************************************************************************)
Abs(x) == IF x < 0 THEN -x ELSE x

Sign(x) == IF x > 0 THEN 1 ELSE IF x < 0 THEN -1 ELSE 0

\* the element of a singleton set.  Only({e(v) : v \in {d}}) is e(d) with d
\* computed once, before e: an argument or a LET definition is otherwise
\* computed again at each of its uses
Only(S) == CHOOSE v \in S : TRUE

RECURSIVE GCD(_, _)
GCD(a, b) == IF b = 0 THEN a ELSE Only({GCD(b, r) : r \in {a % b}})

RECURSIVE Pow2(_)
Pow2(k) == IF k = 0 THEN 1 ELSE 2 * Pow2(k - 1)

\* n/d in lowest terms; n/0 is Infinity, -Infinity or NaN by the sign of n
Norm(n, d) ==
    Only({IF v = 0 THEN <<Sign(u), 0>>
          ELSE Only({<<Sign(v) * (Abs(u) \div g) * Sign(u), Abs(v) \div g>> :
                     g \in {GCD(Abs(u), Abs(v))}}) :
          u \in {n}, v \in {d}})

Zero == <<0, 1>>

One == <<1, 1>>

RAdd(x, y) ==
    Only({Only({Norm(u[1] * (v[2] \div g) + v[1] * (u[2] \div g), (u[2] \div g) * v[2]) :
                g \in {GCD(u[2], v[2])}}) :
          u \in {x}, v \in {y}})

RNeg(x) == Only({<<-u[1], u[2]>> : u \in {x}})

RSub(x, y) == RAdd(x, RNeg(y))

\* cross-cancelled product, so that intermediate values stay small
RMul(x, y) ==
    Only({Only({LET a == IF g1 = 0 THEN 1 ELSE g1
                    b == IF g2 = 0 THEN 1 ELSE g2
                IN  Norm((u[1] \div a) * (v[1] \div b), (u[2] \div b) * (v[2] \div a)) :
                g1 \in {GCD(Abs(u[1]), v[2])}, g2 \in {GCD(Abs(v[1]), u[2])}}) :
          u \in {x}, v \in {y}})

RDiv(x, y) ==
    Only({IF v[1] = 0 THEN <<Sign(u[1]), 0>>
          ELSE RMul(u, <<Sign(v[1]) * v[2], Abs(v[1])>>) : u \in {x}, v \in {y}})

RECURSIVE RPow(_, _)
RPow(x, n) ==
    IF n = 0 THEN One
    ELSE IF n < 0 THEN RDiv(One, RPow(x, -n))
    ELSE RMul(x, RPow(x, n - 1))

RAbs(x) == Only({<<Abs(u[1]), u[2]>> : u \in {x}})

(***************************************************************************)
(* The operators of the source on numbers.  Comparisons, Math.min and      *)
(* Math.max are exact; + - * / and Math.pow round their result.            *)
(***************************************************************************)
\* (n/d) * 2^e for n, d > 0, rounded to Prec significant bits, ties to even:
\* the quotient n/d is first brought into [2^(Prec-1), 2^Prec)
RECURSIVE Scale(_, _, _)
Scale(n, d, e) ==
    IF n < d * Pow2(Prec - 1) THEN Scale(2 * n, d, e - 1)
    ELSE IF n >= d * Pow2(Prec)
    THEN IF n % 2 = 0 THEN Scale(n \div 2, d, e + 1) ELSE Scale(n, 2 * d, e + 1)
    ELSE LET q == n \div d
             r == n % d
             m == IF 2 * r > d \/ (2 * r = d /\ q % 2 = 1) THEN q + 1 ELSE q
         IN  IF e >= 0 THEN <<m * Pow2(e), 1>> ELSE Norm(m, Pow2(-e))

\* the powers of two of the denominator go to the exponent first
RECURSIVE RoundPos(_, _, _)
RoundPos(n, d, e) ==
    IF d % 2 = 0 THEN RoundPos(n, d \div 2, e - 1) ELSE Scale(n, d, e)

\* the number nearest to the exact value x
Fl(x) ==
    Only({IF u[2] = 0 \/ u[1] = 0 THEN u
          ELSE Only({<<Sign(u[1]) * r[1], r[2]>> : r \in {RoundPos(Abs(u[1]), u[2], 0)}}) :
          u \in {x}})

\* the number a decimal literal or input n/d denotes
Num(n, d) == Fl(Norm(n, d))

FAdd(x, y) == Fl(RAdd(x, y))

FSub(x, y) == Fl(RSub(x, y))

FMul(x, y) == Fl(RMul(x, y))

FDiv(x, y) == Fl(RDiv(x, y))

\* Math.pow(x, n), taken as correctly rounded
FPow(x, n) == Fl(RPow(x, n))

RLess(x, y) == RSub(x, y)[1] < 0

RLeq(x, y) == RSub(x, y)[1] <= 0

RMin(x, y) == Only({IF RLess(v, u) THEN v ELSE u : u \in {x}, v \in {y}})

RMax(x, y) == Only({IF RLess(u, v) THEN v ELSE u : u \in {x}, v \in {y}})

(***************************************************************************)
(* Inputs.  Principals and tenures include the non-positive values the     *)
(* defensive guards are written for; rates are annual percentages;         *)
(* a prepayment map takes some months to a positive amount (type           *)
(* Prepayments; App.tsx handlePrepaymentChange stores only amounts > 0).   *)
(***************************************************************************)
Principals ==
    {Num(-1, 1), Num(0, 1), Num(1, 100), Num(1, 50), Num(1, 1), Num(1000, 1)}

\* 75/256 percent a year is 2^-12 a month: a positive rate r so small that
\* 1 + r rounds to 1
Rates ==
    {Num(-12, 1), Num(0, 1), Num(75, 256), Num(300, 1), Num(600, 1), Num(1200, 1)}

Tenures == -1 .. MaxTenure

Months == 1 .. MaxTenure

PrepaymentAmounts == {Num(1, 2), Num(2000, 1)}

\* every sparse map from months to amounts
PrepaymentMaps == UNION {[ks -> PrepaymentAmounts] : ks \in SUBSET Months}

NoPrepayments == [k \in {} |-> Zero]

(***************************************************************************)
(* calculateEMI                                                            *)
(***************************************************************************)
\* the literal 0.01 of the loop condition
Epsilon == Num(1, 100)

\* annualRate / 12 / 100
RateToMonthly(annualRate) == FDiv(FDiv(annualRate, Num(12, 1)), Num(100, 1))

\* Variant: the factor (1+r)^n is missing from the numerator.
calculateEMI_NoCompounding(principal, annualRate, tenureInMonths) ==
    IF RLeq(principal, Zero) \/ tenureInMonths <= 0 THEN Zero
    ELSE IF RLeq(annualRate, Zero) THEN FDiv(principal, Num(tenureInMonths, 1))
    ELSE LET monthlyRate == RateToMonthly(annualRate)
             pow == FPow(FAdd(One, monthlyRate), tenureInMonths)
         IN  FDiv(FMul(principal, monthlyRate), FSub(pow, One))

\* Variant: the guard does not look at tenureInMonths.
calculateEMI_NoTenureGuard(principal, annualRate, tenureInMonths) ==
    IF RLeq(principal, Zero) THEN Zero
    ELSE IF RLeq(annualRate, Zero) THEN FDiv(principal, Num(tenureInMonths, 1))
    ELSE LET monthlyRate == RateToMonthly(annualRate)
             pow == FPow(FAdd(One, monthlyRate), tenureInMonths)
         IN  FDiv(FMul(FMul(principal, monthlyRate), pow), FSub(pow, One))

\* Variant: only a negative rate takes the straight-line branch; rate 0 goes
\* through the annuity formula.
calculateEMI_StrictRateGuard(principal, annualRate, tenureInMonths) ==
    IF RLeq(principal, Zero) \/ tenureInMonths <= 0 THEN Zero
    ELSE IF RLess(annualRate, Zero) THEN FDiv(principal, Num(tenureInMonths, 1))
    ELSE LET monthlyRate == RateToMonthly(annualRate)
             pow == FPow(FAdd(One, monthlyRate), tenureInMonths)
         IN  FDiv(FMul(FMul(principal, monthlyRate), pow), FSub(pow, One))

calculateEMI(principal, annualRate, tenureInMonths) ==
    IF RLeq(principal, Zero) \/ tenureInMonths <= 0 THEN Zero
    ELSE IF RLeq(annualRate, Zero) THEN FDiv(principal, Num(tenureInMonths, 1))
    ELSE LET monthlyRate == RateToMonthly(annualRate)
             pow == FPow(FAdd(One, monthlyRate), tenureInMonths)
         IN  FDiv(FMul(FMul(principal, monthlyRate), pow), FSub(pow, One))

(***************************************************************************)
(* generateAmortizationSchedule: the pieces of the loop                    *)
(***************************************************************************)
\* Variant: the guard does not look at tenureInMonths.
EarlyReturn_PrincipalOnly(p, n) == RLeq(p, Zero)

\* the guard of the early return: principal <= 0 || tenureInMonths <= 0
EarlyReturn(p, n) == RLeq(p, Zero) \/ n <= 0

\* Variant: the annual percentage is used as the monthly rate.
MonthlyRate_Annual(rate) == IF RLess(Zero, rate) THEN rate ELSE Zero

\* annualRate > 0 ? annualRate / 12 / 100 : 0
MonthlyRate(rate) == IF RLess(Zero, rate) THEN RateToMonthly(rate) ELSE Zero

\* Variant: the loop runs while any balance is left (> 0 instead of > 0.01).
LoopGuard_ZeroThreshold(m, n, balance) == m <= n /\ RLess(Zero, balance)

\* Variant: the loop does not stop at the tenure.
LoopGuard_IgnoresTenure(m, n, balance) == RLess(Epsilon, balance)

\* the loop condition: month <= tenureInMonths && remainingBalance > 0.01
LoopGuard(m, n, balance) == m <= n /\ RLess(Epsilon, balance)

\* Variant: the scheduled principal is not capped by the balance.
PrincipalPaid_Uncapped(emi, interest, openingBalance) ==
    LET principalPaid == FSub(emi, interest)
    IN  IF RLess(principalPaid, Zero) THEN Zero ELSE principalPaid

\* Math.min(baseEMI - interest, openingBalance), set to 0 when negative
PrincipalPaid(emi, interest, openingBalance) ==
    LET principalPaid == RMin(FSub(emi, interest), openingBalance)
    IN  IF RLess(principalPaid, Zero) THEN Zero ELSE principalPaid

\* Variant: the entry of the next month is applied.
PrepaymentOf_MonthAhead(pre, m) ==
    IF m + 1 \in DOMAIN pre /\ pre[m + 1] # Zero THEN pre[m + 1] ELSE Zero

\* prepayments[month] || 0
PrepaymentOf(pre, m) ==
    IF m \in DOMAIN pre /\ pre[m] # Zero THEN pre[m] ELSE Zero

\* Variant: the prepayment is not taken off the balance.
TentativeClosing_IgnoresPrepayment(openingBalance, principalPaid, prepayment) ==
    FSub(openingBalance, principalPaid)

\* Variant: the prepayment is added to the balance.
TentativeClosing_AddsPrepayment(openingBalance, principalPaid, prepayment) ==
    FAdd(FSub(openingBalance, principalPaid), prepayment)

\* openingBalance - principalPaid - prepayment, before the adjustment
TentativeClosing(openingBalance, principalPaid, prepayment) ==
    FSub(FSub(openingBalance, principalPaid), prepayment)

\* Variant: the prepayment is recorded as entered.
ActualPrepayment_Unadjusted(prepayment, tentative) == prepayment

\* actualPrepayment: prepayment + closingBalance when closingBalance < 0
ActualPrepayment(prepayment, tentative) ==
    IF RLess(tentative, Zero) THEN FAdd(prepayment, tentative) ELSE prepayment

\* closingBalance after the adjustment: 0 when it was negative
AdjustedClosing(tentative) ==
    IF RLess(tentative, Zero) THEN Zero ELSE tentative

\* Variant: the row records the values without the Math.max(0, .) clamps.
LoopBody_Unclamped(m, balance, rate, emi, pre) ==
    LET openingBalance   == balance
        interest         == FMul(openingBalance, rate)
        principalPaid    == PrincipalPaid(emi, interest, openingBalance)
        prepayment       == PrepaymentOf(pre, m)
        tentative        == TentativeClosing(openingBalance, principalPaid, prepayment)
        actualPrepayment == ActualPrepayment(prepayment, tentative)
        closingBalance   == AdjustedClosing(tentative)
        totalPayment     == FAdd(FAdd(interest, principalPaid), actualPrepayment)
    IN  [row |-> [month          |-> m,
                  openingBalance |-> openingBalance,
                  interest       |-> interest,
                  principal      |-> principalPaid,
                  prepayment     |-> actualPrepayment,
                  totalPayment   |-> totalPayment,
                  closingBalance |-> closingBalance],
         remainingBalance |-> closingBalance]

\* Variant: totalPayment counts the prepayment as entered, not as applied.
LoopBody_TotalOfEntered(m, balance, rate, emi, pre) ==
    LET openingBalance   == balance
        interest         == FMul(openingBalance, rate)
        principalPaid    == PrincipalPaid(emi, interest, openingBalance)
        prepayment       == PrepaymentOf(pre, m)
        tentative        == TentativeClosing(openingBalance, principalPaid, prepayment)
        actualPrepayment == ActualPrepayment(prepayment, tentative)
        closingBalance   == AdjustedClosing(tentative)
        totalPayment     == FAdd(FAdd(interest, principalPaid), prepayment)
    IN  [row |-> [month          |-> m,
                  openingBalance |-> openingBalance,
                  interest       |-> RMax(Zero, interest),
                  principal      |-> RMax(Zero, principalPaid),
                  prepayment     |-> RMax(Zero, actualPrepayment),
                  totalPayment   |-> RMax(Zero, totalPayment),
                  closingBalance |-> RMax(Zero, closingBalance)],
         remainingBalance |-> closingBalance]

\* One iteration of the loop for month m with remainingBalance = balance:
\* the row pushed to the schedule and the new remainingBalance.
LoopBody(m, balance, rate, emi, pre) ==
    Only({Only({Only({
        LET openingBalance   == balance
            prepayment       == PrepaymentOf(pre, m)
            actualPrepayment == ActualPrepayment(prepayment, tentative)
            closingBalance   == AdjustedClosing(tentative)
            totalPayment     == FAdd(FAdd(interest, principalPaid), actualPrepayment)
        IN  [row |-> [month          |-> m,
                      openingBalance |-> openingBalance,
                      interest       |-> RMax(Zero, interest),
                      principal      |-> RMax(Zero, principalPaid),
                      prepayment     |-> RMax(Zero, actualPrepayment),
                      totalPayment   |-> RMax(Zero, totalPayment),
                      closingBalance |-> RMax(Zero, closingBalance)],
             remainingBalance |-> closingBalance] :
        tentative \in {TentativeClosing(balance, principalPaid, PrepaymentOf(pre, m))}}) :
        principalPaid \in {PrincipalPaid(emi, interest, balance)}}) :
        interest \in {FMul(balance, rate)}})

\* the rows the loop pushes from month m on
RECURSIVE ScheduleFrom(_, _, _, _, _, _)
ScheduleFrom(m, balance, n, rate, emi, pre) ==
    IF LoopGuard(m, n, balance)
    THEN LET it == LoopBody(m, balance, rate, emi, pre)
         IN  <<it.row>> \o ScheduleFrom(m + 1, it.remainingBalance, n, rate, emi, pre)
    ELSE <<>>

\* the function as a whole
generateAmortizationSchedule(p, rate, n, pre) ==
    IF EarlyReturn(p, n) THEN <<>>
    ELSE ScheduleFrom(1, p, n, MonthlyRate(rate), calculateEMI(p, rate, n), pre)

(***************************************************************************)
(* State: one call of one of the two functions.                            *)
(*   principal, annualRate, tenureInMonths, prepayments                    *)
(*                    the arguments the caller passes                      *)
(*   pc               "idle"  no call made yet                             *)
(*                    "loop"  generateAmortizationSchedule is at the loop  *)
(*                            condition                                    *)
(*                    "done"  generateAmortizationSchedule has returned    *)
(*                            schedule                                     *)
(*                    "emi"   calculateEMI has returned emi                *)
(*   month, remainingBalance, monthlyRate, baseEMI, schedule               *)
(*                    the locals of generateAmortizationSchedule           *)
(*   emi              the value calculateEMI returned                      *)
(* and the component that makes the calls, App.tsx:                        *)
(*   app              the state of the component (its useState values)     *)
(*   timers           the timeouts that are pending                        *)
(*   handler          the timeout of the latest run of the debounce effect *)
(*   totals           the two reduce calls of handleCalculate              *)
(***************************************************************************)
VARIABLES pc, principal, annualRate, tenureInMonths, prepayments,
          month, remainingBalance, monthlyRate, baseEMI, schedule, emi,
          app, timers, handler, totals

args == <<principal, annualRate, tenureInMonths, prepayments>>

locals == <<month, remainingBalance, monthlyRate, baseEMI, schedule>>

component == <<app, timers, handler, totals>>

vars == <<pc, principal, annualRate, tenureInMonths, prepayments,
          month, remainingBalance, monthlyRate, baseEMI, schedule, emi,
          app, timers, handler, totals>>

\* an input of the form as the characters of its text
Chars1000000 == <<"1", "0", "0", "0", "0", "0", "0">>

Chars8p5 == <<"8", ".", "5">>

Chars20 == <<"2", "0">>

\* what a render hands to the handleCalculate it creates: the values of the
\* dependency list of useCallback
Closure(a) ==
    [loanAmount |-> a.loanAmount, interestRate |-> a.interestRate,
     tenure |-> a.tenure, tenureUnit |-> a.tenureUnit,
     prepayments |-> a.prepayments]

\* the delay of the debounce effect, in milliseconds
DebounceDelay == 500

\* setTimeout(() => handleCalculate(), 500) of the render of state a, as
\* timeout id
Timeout(id, a) == [id |-> id, delay |-> DebounceDelay, inputs |-> Closure(a)]

\* the useState defaults
InitialState ==
    [loanAmount |-> Chars1000000, interestRate |-> Chars8p5,
     tenure |-> Chars20, tenureUnit |-> "years",
     prepayments |-> <<>>,
     emiDetails |-> <<>>, schedule |-> <<>>,
     errors |-> [loanAmount |-> "", interestRate |-> "", tenure |-> ""],
     isCalculating |-> FALSE]

\* the component after its first render: the debounce effect has run once
Mounted ==
    /\ app = InitialState
    /\ timers = {Timeout(1, InitialState)}
    /\ handler = 1
    /\ totals = <<>>

Init ==
    /\ pc = "idle"
    /\ principal \in Principals
    /\ annualRate \in Rates
    /\ tenureInMonths \in Tenures
    /\ prepayments \in PrepaymentMaps
    /\ month = 0
    /\ remainingBalance = Zero
    /\ monthlyRate = Zero
    /\ baseEMI = Zero
    /\ schedule = <<>>
    /\ emi = Zero
    /\ Mounted

\* calculateEMI(principal, annualRate, tenureInMonths)
CallEMI ==
    /\ pc = "idle"
    /\ emi' = calculateEMI(principal, annualRate, tenureInMonths)
    /\ pc' = "emi"
    /\ UNCHANGED <<args, locals, component>>

\* generateAmortizationSchedule(principal, annualRate, tenureInMonths,
\* prepayments), up to the loop
Generate ==
    /\ pc = "idle"
    /\ schedule' = <<>>
    /\ IF EarlyReturn(principal, tenureInMonths)
       THEN /\ pc' = "done"
            /\ UNCHANGED <<month, remainingBalance, monthlyRate, baseEMI>>
       ELSE /\ pc' = "loop"
            /\ month' = 1
            /\ remainingBalance' = principal
            /\ monthlyRate' = MonthlyRate(annualRate)
            /\ baseEMI' = calculateEMI(principal, annualRate, tenureInMonths)
    /\ UNCHANGED <<args, emi, component>>

\* Variant: the next month starts from the balance before the prepayment.
LoopIter_DropsPrepayment ==
    /\ pc = "loop"
    /\ LoopGuard(month, tenureInMonths, remainingBalance)
    /\ LET it == LoopBody(month, remainingBalance, monthlyRate, baseEMI, prepayments)
       IN  /\ schedule' = Append(schedule, it.row)
           /\ remainingBalance' = RSub(it.row.openingBalance, it.row.principal)
    /\ month' = month + 1
    /\ UNCHANGED <<pc, args, monthlyRate, baseEMI, emi, component>>

\* Variant: the installment is recomputed every month from the balance left
\* and the months left.
LoopIter_RecomputesEMI ==
    /\ pc = "loop"
    /\ LoopGuard(month, tenureInMonths, remainingBalance)
    /\ LET it == LoopBody(month, remainingBalance, monthlyRate,
                          calculateEMI(remainingBalance, annualRate,
                                       tenureInMonths - month + 1),
                          prepayments)
       IN  /\ schedule' = Append(schedule, it.row)
           /\ remainingBalance' = it.remainingBalance
    /\ month' = month + 1
    /\ UNCHANGED <<pc, args, monthlyRate, baseEMI, emi, component>>

\* Variant: the prepayment applied is deleted from the map.
LoopIter_ConsumesPrepayment ==
    /\ pc = "loop"
    /\ LoopGuard(month, tenureInMonths, remainingBalance)
    /\ LET it == LoopBody(month, remainingBalance, monthlyRate, baseEMI, prepayments)
       IN  /\ schedule' = Append(schedule, it.row)
           /\ remainingBalance' = it.remainingBalance
    /\ month' = month + 1
    /\ prepayments' = [k \in DOMAIN prepayments \ {month} |-> prepayments[k]]
    /\ UNCHANGED <<pc, principal, annualRate, tenureInMonths, monthlyRate, baseEMI, emi, component>>

\* one iteration of the loop
LoopIter ==
    /\ pc = "loop"
    /\ LoopGuard(month, tenureInMonths, remainingBalance)
    /\ LET it == LoopBody(month, remainingBalance, monthlyRate, baseEMI, prepayments)
       IN  /\ schedule' = Append(schedule, it.row)
           /\ remainingBalance' = it.remainingBalance
    /\ month' = month + 1
    /\ UNCHANGED <<pc, args, monthlyRate, baseEMI, emi, component>>

\* the loop condition is false: return schedule
Return ==
    /\ pc = "loop"
    /\ ~LoopGuard(month, tenureInMonths, remainingBalance)
    /\ pc' = "done"
    /\ UNCHANGED <<args, locals, emi, component>>

Next == CallEMI \/ Generate \/ LoopIter \/ Return

Spec == Init /\ [][Next]_vars

\* The same call, running to completion: the function is synchronous, a
\* loop that has started keeps taking its next step.
SpecFair == Init /\ [][Next]_vars /\ WF_vars(LoopIter) /\ WF_vars(Return)

(***************************************************************************)
(* The same call with any map of the parameter type Prepayments            *)
(* ({[month: number]: number}): generateAmortizationSchedule is exported   *)
(* and does not check the amounts, so a caller other than App.tsx can pass *)
(* a negative one.                                                         *)
(***************************************************************************)
AnyAmounts == PrepaymentAmounts \cup {Num(-8, 1)}

AnyPrepaymentMaps == UNION {[ks -> AnyAmounts] : ks \in SUBSET Months}

InitAnyMap ==
    /\ pc = "idle"
    /\ principal \in Principals
    /\ annualRate \in Rates
    /\ tenureInMonths \in Tenures
    /\ prepayments \in AnyPrepaymentMaps
    /\ month = 0
    /\ remainingBalance = Zero
    /\ monthlyRate = Zero
    /\ baseEMI = Zero
    /\ schedule = <<>>
    /\ emi = Zero
    /\ Mounted

SpecAnyMap == InitAnyMap /\ [][Next]_vars

(***************************************************************************)
(* The same call on a loan with a map that also has keys that are no month *)
(* of the loan: 0 and MaxTenure + 1.                                       *)
(***************************************************************************)
AnyKeys == 0 .. MaxTenure + 1

AnyKeyMaps == UNION {[ks -> PrepaymentAmounts] : ks \in SUBSET AnyKeys}

InitAnyKey ==
    /\ pc = "idle"
    /\ principal \in {Num(1, 1), Num(1000, 1)}
    /\ annualRate \in {Num(0, 1), Num(1200, 1)}
    /\ tenureInMonths \in 1 .. MaxTenure
    /\ prepayments \in AnyKeyMaps
    /\ month = 0
    /\ remainingBalance = Zero
    /\ monthlyRate = Zero
    /\ baseEMI = Zero
    /\ schedule = <<>>
    /\ emi = Zero
    /\ Mounted

SpecAnyKey == InitAnyKey /\ [][Next]_vars

(***************************************************************************)
(* Numbers at full width.  The same arithmetic as above with the           *)
(* significand of a JavaScript number, DoublePrec bits, which does not fit *)
(* an integer of the model: a natural number is a sequence of limbs of     *)
(* LimbBits bits, least significant first, without leading zero limbs, and *)
(* a number is <<sign, significand, exponent>>, of value sign *            *)
(* significand * 2^exponent, the significand having exactly DoublePrec     *)
(* bits (0 is <<0, <<>>, 0>>).  Every operator is the exact operation      *)
(* followed by rounding to nearest, ties to even.  The exponent range is   *)
(* not bounded, and the operands are finite.                               *)
(***************************************************************************)
\* significand bits of a JavaScript number
DoublePrec == 53

LimbBits == 15

Limb == 2 ^ LimbBits

At(a, i) == IF i <= Len(a) THEN a[i] ELSE 0

\* a without its leading zero limbs
BTrim(a) ==
    Only({LET nz == {i \in 1 .. Len(v) : v[i] # 0}
          IN  IF nz = {} THEN <<>>
              ELSE SubSeq(v, 1, CHOOSE i \in nz : \A j \in nz : j <= i) :
          v \in {a}})

\* the natural 0 <= n < Limb^3
BInt(n) == BTrim(<<n % Limb, (n \div Limb) % Limb, n \div (Limb * Limb)>>)

\* -1, 0 or 1 as a < b, a = b or a > b
BCmp(a, b) ==
    Only({IF Len(u) # Len(v) THEN (IF Len(u) < Len(v) THEN -1 ELSE 1)
          ELSE LET diff == {i \in 1 .. Len(u) : u[i] # v[i]}
               IN  IF diff = {} THEN 0
                   ELSE Only({IF u[i] < v[i] THEN -1 ELSE 1 :
                              i \in {CHOOSE i \in diff : \A j \in diff : j <= i}}) :
          u \in {a}, v \in {b}})

\* the carry into limb i of a + b: a limb below produces one and every limb
\* between passes it on
BCarry(a, b, i) ==
    \E j \in 1 .. i - 1 :
       /\ At(a, j) + At(b, j) >= Limb
       /\ \A k \in j + 1 .. i - 1 : At(a, k) + At(b, k) >= Limb - 1

\* a + b; a and b may have leading zero limbs
BAdd(a, b) ==
    Only({BTrim([i \in 1 .. (IF Len(u) > Len(v) THEN Len(u) ELSE Len(v)) + 1 |->
                   (At(u, i) + At(v, i) + IF BCarry(u, v, i) THEN 1 ELSE 0) % Limb]) :
          u \in {a}, v \in {b}})

\* the borrow from limb i of a - b
BBorrow(a, b, i) ==
    \E j \in 1 .. i - 1 :
       /\ a[j] < At(b, j)
       /\ \A k \in j + 1 .. i - 1 : a[k] <= At(b, k)

\* a - b for a >= b
BSub(a, b) ==
    Only({BTrim([i \in 1 .. Len(u) |->
                   (u[i] - At(v, i) - (IF BBorrow(u, v, i) THEN 1 ELSE 0) + Limb) % Limb]) :
          u \in {a}, v \in {b}})

\* a * k for 0 <= k < Limb: the low halves of the products of the limbs, plus
\* their high halves one limb up
BMulSmall(a, k) ==
    Only({BAdd([i \in 1 .. Len(u) |-> (u[i] * j) % Limb],
               <<0>> \o [i \in 1 .. Len(u) |-> (u[i] * j) \div Limb]) :
          u \in {a}, j \in {k}})

\* a * Limb^j
BShiftLimbs(a, j) ==
    Only({IF u = <<>> THEN u ELSE [i \in 1 .. j |-> 0] \o u : u \in {a}})

\* a * (the limbs j, j+1, ... of b) * Limb^(j-1) + acc
RECURSIVE BMulAt(_, _, _, _)
BMulAt(a, b, j, acc) ==
    IF j > Len(b) THEN acc
    ELSE Only({BMulAt(a, b, j + 1, acc2) :
               acc2 \in {BAdd(acc, BShiftLimbs(BMulSmall(a, b[j]), j - 1))}})

BMul(a, b) == Only({BMulAt(u, v, 1, <<>>) : u \in {a}, v \in {b}})

\* the number of bits of 0 <= n < Limb
IntBitLen(n) == CHOOSE k \in 0 .. LimbBits : n < 2 ^ k /\ (k = 0 \/ n >= 2 ^ (k - 1))

BBitLen(a) ==
    Only({IF u = <<>> THEN 0 ELSE LimbBits * (Len(u) - 1) + IntBitLen(u[Len(u)]) :
          u \in {a}})

\* a * 2^k
BShl(a, k) == BShiftLimbs(BMulSmall(a, 2 ^ (k % LimbBits)), k \div LimbBits)

\* <<a \div 2^k, a % 2^k>> for 0 <= k < LimbBits
BShrBits(a, k) ==
    Only({<<BTrim([i \in 1 .. Len(u) |->
                     u[i] \div 2 ^ k + (At(u, i + 1) % 2 ^ k) * 2 ^ (LimbBits - k)]),
            At(u, 1) % 2 ^ k>> : u \in {a}})

\* <<a \div 2^k, whether a bit was shifted out>>
BShr(a, k) ==
    Only({LET j   == k \div LimbBits
              low == SubSeq(u, 1, IF j < Len(u) THEN j ELSE Len(u))
          IN  Only({<<qr[1], qr[2] # 0 \/ \E i \in 1 .. Len(low) : low[i] # 0>> :
                    qr \in {BShrBits(SubSeq(u, j + 1, Len(u)), k % LimbBits)}}) :
          u \in {a}})

\* <<q, cur - q * d>> for the quotient limb q of cur by d, where cur < d * Limb
\* and the top limb of d is at least Limb / 2: the quotient of the top limbs
\* is q, q + 1 or q + 2
BDivStep(cur, d) ==
    LET est == (At(cur, Len(d) + 1) * Limb + At(cur, Len(d))) \div d[Len(d)]
        top == IF est < Limb THEN est ELSE Limb - 1
    IN  Only({<<q, BSub(cur, BMulSmall(d, q))>> :
              q \in {CHOOSE q \in (IF top < 2 THEN 0 ELSE top - 2) .. top :
                        /\ BCmp(BMulSmall(d, q), cur) <= 0
                        /\ BCmp(BAdd(BMulSmall(d, q), d), cur) > 0}})

\* <<quotient, remainder>> of (r * Limb^i + the limbs i, i-1, ..., 1 of n) by
\* d, for r < d, after the quotient limbs q of the limbs above
RECURSIVE BDivLimbs(_, _, _, _, _)
BDivLimbs(n, d, i, q, r) ==
    IF i = 0 THEN <<q, r>>
    ELSE Only({BDivLimbs(n, d, i - 1, <<qr[1]>> \o q, qr[2]) :
               qr \in {BDivStep(BTrim(<<n[i]>> \o r), d)}})

\* <<quotient, remainder>> of n by d # 0: both are shifted so that the top
\* limb of the divisor is at least Limb / 2
BDivMod(n, d) ==
    Only({Only({<<BTrim(qr[1]), BShrBits(qr[2], s)[1]>> :
                qr \in {Only({BDivLimbs(u, v, Len(u), <<>>, <<>>) :
                              u \in {BShl(n, s)}, v \in {BShl(d, s)}})}}) :
          s \in {Only({LimbBits - IntBitLen(v[Len(v)]) : v \in {d}})}})

\* <<m, e>> with m of exactly p bits: the natural M > 0 times 2^E, rounded to
\* nearest, ties to even; inexact says that M stands for a value slightly
\* above M
RoundTo(M, E, inexact, p) ==
    Only({IF L <= p THEN <<BShl(M, p - L), E - (p - L)>>
          ELSE Only({Only({LET sticky == sh[2] \/ inexact
                               up     == sh[1][1] % 2 = 1 /\ (sticky \/ q[1] % 2 = 1)
                           IN  Only({IF BBitLen(q2) > p
                                     THEN <<BShrBits(q2, 1)[1], E + (L - p) + 1>>
                                     ELSE <<q2, E + (L - p)>> :
                                     q2 \in {IF up THEN BAdd(q, <<1>>) ELSE q}}) :
                           q \in {BShrBits(sh[1], 1)[1]}}) :
                     sh \in {BShr(M, L - p - 1)}}) :
          L \in {BBitLen(M)}})

WZero == <<0, <<>>, 0>>

WNeg(x) == Only({<<-v[1], v[2], v[3]>> : v \in {x}})

\* the integer n as a number of p bits
WIntP(n, p) ==
    IF n = 0 THEN WZero
    ELSE Only({<<Sign(n), r[1], r[2]>> : r \in {RoundTo(BInt(Abs(n)), 0, FALSE, p)}})

WMulP(x, y, p) ==
    Only({IF u[1] = 0 \/ v[1] = 0 THEN WZero
          ELSE Only({<<u[1] * v[1], r[1], r[2]>> :
                     r \in {RoundTo(BMul(u[2], v[2]), u[3] + v[3], FALSE, p)}}) :
          u \in {x}, v \in {y}})

\* x + y for x # 0, y # 0 and exponent of x >= exponent of y
WAddOrdered(x, y, p) ==
    IF x[3] - y[3] > p + 2 THEN x
    ELSE Only({Only({IF x[1] = y[1]
                     THEN Only({<<x[1], r[1], r[2]>> :
                                r \in {RoundTo(BAdd(mx, y[2]), y[3], FALSE, p)}})
                     ELSE IF c = 0 THEN WZero
                     ELSE IF c > 0
                     THEN Only({<<x[1], r[1], r[2]>> :
                                r \in {RoundTo(BSub(mx, y[2]), y[3], FALSE, p)}})
                     ELSE Only({<<y[1], r[1], r[2]>> :
                                r \in {RoundTo(BSub(y[2], mx), y[3], FALSE, p)}}) :
                     c \in {BCmp(mx, y[2])}}) :
               mx \in {BShl(x[2], x[3] - y[3])}})

WAddP(x, y, p) ==
    Only({IF u[1] = 0 THEN v
          ELSE IF v[1] = 0 THEN u
          ELSE IF u[3] >= v[3] THEN WAddOrdered(u, v, p)
          ELSE WAddOrdered(v, u, p) : u \in {x}, v \in {y}})

\* x / y for y # 0
WDivP(x, y, p) ==
    Only({IF u[1] = 0 THEN WZero
          ELSE Only({Only({<<u[1] * v[1], r[1], r[2]>> :
                           r \in {RoundTo(qr[1], u[3] - v[3] - (p + 3), qr[2] # <<>>, p)}}) :
                     qr \in {BDivMod(BShl(u[2], p + 3), v[2])}}) :
          u \in {x}, v \in {y}})

\* x^n for n >= 1 by squaring, every product rounded to p bits
RECURSIVE WPowP(_, _, _)
WPowP(x, n, p) ==
    IF n = 1 THEN x
    ELSE IF n % 2 = 0
    THEN Only({WMulP(h, h, p) : h \in {WPowP(x, n \div 2, p)}})
    ELSE WMulP(x, WPowP(x, n - 1, p), p)

\* the sign of x - y
WCmp(x, y) ==
    Only({IF u[1] # v[1] THEN (IF u[1] < v[1] THEN -1 ELSE 1)
          ELSE IF u[1] = 0 THEN 0
          ELSE IF u[3] # v[3] THEN (IF u[3] < v[3] THEN -u[1] ELSE u[1])
          ELSE u[1] * BCmp(u[2], v[2]) : u \in {x}, v \in {y}})

WLess(x, y) == WCmp(x, y) < 0

WLeq(x, y) == WCmp(x, y) <= 0

WMin(x, y) == Only({IF WLess(v, u) THEN v ELSE u : u \in {x}, v \in {y}})

WMax(x, y) == Only({IF WLess(u, v) THEN v ELSE u : u \in {x}, v \in {y}})

\* the operators of the source on JavaScript numbers
WInt(n) == WIntP(n, DoublePrec)

WAdd(x, y) == WAddP(x, y, DoublePrec)

WSub(x, y) == WAddP(x, WNeg(y), DoublePrec)

WMul(x, y) == WMulP(x, y, DoublePrec)

WDiv(x, y) == WDivP(x, y, DoublePrec)

\* the number a decimal literal or input n/d denotes
WNum(n, d) == WDiv(WInt(n), WInt(d))

\* Math.pow(x, n) for x # 0 and an integer n >= 0, as the correctly rounded
\* power: computed at twice the width, then rounded
WPow(x, n) ==
    IF n = 0 THEN WInt(1)
    ELSE Only({Only({<<wide[1], r[1], r[2]>> :
                     r \in {RoundTo(wide[2], wide[3], FALSE, DoublePrec)}}) :
               wide \in {Only({WPowP(<<v[1], BShl(v[2], DoublePrec), v[3] - DoublePrec>>,
                                     n, 2 * DoublePrec) : v \in {x}})}})

\* the number next to x # 0, u units in the last place away (u in -1 .. 1)
WNeighbour(x, u) ==
    Only({IF u = 0 THEN v
          ELSE IF u > 0
          THEN Only({<<v[1], r[1], r[2]>> :
                     r \in {RoundTo(BAdd(v[2], <<1>>), v[3], FALSE, DoublePrec)}})
          ELSE Only({IF BBitLen(m) < DoublePrec
                     THEN <<v[1], BSub(BMulSmall(v[2], 2), <<1>>), v[3] - 1>>
                     ELSE <<v[1], m, v[3]>> : m \in {BSub(v[2], <<1>>)}}) :
          v \in {x}})

\* Math.pow is implementation-approximated: the result is the correctly
\* rounded power or one of its two neighbours
PowErrors == {-1, 0, 1}

MathPow(x, n, u) == WNeighbour(WPow(x, n), u)

(***************************************************************************)
(* The two functions at full width, on the inputs App.tsx starts with: a   *)
(* loan of 1,000,000 at 8.5% for 20 years, without prepayments or with a   *)
(* prepayment of 500,000 in month 1.  u is the error of Math.pow.          *)
(***************************************************************************)
\* useState<string>('1000000')
DefaultLoanAmount == 1000000

\* useState<string>('8.5')
DefaultInterestRate == WNum(17, 2)

\* useState<string>('20'), tenureUnit 'years'
DefaultTenureYears == 20

\* n = Math.round(t * 12)
DefaultTenureMonths == DefaultTenureYears * 12

ScenarioPrepaymentMaps == {[k \in {} |-> WZero], [k \in {1} |-> WInt(500000)]}

\* Variant: the factor (1+r)^n is missing from the numerator.
calculateEMI_Double_NoCompounding(P, rate, n, u) ==
    IF WLeq(P, WZero) \/ n <= 0 THEN WZero
    ELSE IF WLeq(rate, WZero) THEN WDiv(P, WInt(n))
    ELSE LET r   == WDiv(WDiv(rate, WInt(12)), WInt(100))
             pow == MathPow(WAdd(WInt(1), r), n, u)
         IN  WDiv(WMul(P, r), WSub(pow, WInt(1)))

\* calculateEMI
calculateEMI_Double(P, rate, n, u) ==
    IF WLeq(P, WZero) \/ n <= 0 THEN WZero
    ELSE IF WLeq(rate, WZero) THEN WDiv(P, WInt(n))
    ELSE LET r   == WDiv(WDiv(rate, WInt(12)), WInt(100))
             pow == MathPow(WAdd(WInt(1), r), n, u)
         IN  WDiv(WMul(WMul(P, r), pow), WSub(pow, WInt(1)))

\* annualRate > 0 ? annualRate / 12 / 100 : 0
MonthlyRate_Double(rate) ==
    IF WLess(WZero, rate) THEN WDiv(WDiv(rate, WInt(12)), WInt(100)) ELSE WZero

\* the loop condition: month <= tenureInMonths && remainingBalance > 0.01
LoopGuard_Double(m, n, balance) == m <= n /\ WLess(WNum(1, 100), balance)

\* Variant: the prepayment is not taken off the balance.
LoopBody_Double_IgnoresPrepayment(m, balance, rate, installment, pre) ==
    LET openingBalance   == balance
        interest         == WMul(openingBalance, rate)
        capped           == WMin(WSub(installment, interest), openingBalance)
        principalPaid    == IF WLess(capped, WZero) THEN WZero ELSE capped
        prepayment       == IF m \in DOMAIN pre THEN pre[m] ELSE WZero
        closingBalance   == WSub(openingBalance, principalPaid)
        totalPayment     == WAdd(WAdd(interest, principalPaid), prepayment)
    IN  [row |-> [month          |-> m,
                  openingBalance |-> openingBalance,
                  interest       |-> WMax(WZero, interest),
                  principal      |-> WMax(WZero, principalPaid),
                  prepayment     |-> WMax(WZero, prepayment),
                  totalPayment   |-> WMax(WZero, totalPayment),
                  closingBalance |-> WMax(WZero, closingBalance)],
         remainingBalance |-> closingBalance]

\* the loop body
LoopBody_Double(m, balance, rate, installment, pre) ==
    LET openingBalance   == balance
        interest         == WMul(openingBalance, rate)
        capped           == WMin(WSub(installment, interest), openingBalance)
        principalPaid    == IF WLess(capped, WZero) THEN WZero ELSE capped
        prepayment       == IF m \in DOMAIN pre THEN pre[m] ELSE WZero
        tentative        == WSub(WSub(openingBalance, principalPaid), prepayment)
        actualPrepayment == IF WLess(tentative, WZero)
                            THEN WAdd(prepayment, tentative) ELSE prepayment
        closingBalance   == IF WLess(tentative, WZero) THEN WZero ELSE tentative
        totalPayment     == WAdd(WAdd(interest, principalPaid), actualPrepayment)
    IN  [row |-> [month          |-> m,
                  openingBalance |-> openingBalance,
                  interest       |-> WMax(WZero, interest),
                  principal      |-> WMax(WZero, principalPaid),
                  prepayment     |-> WMax(WZero, actualPrepayment),
                  totalPayment   |-> WMax(WZero, totalPayment),
                  closingBalance |-> WMax(WZero, closingBalance)],
         remainingBalance |-> closingBalance]

(***************************************************************************)
(* The call on App.tsx's default inputs, at full width.                    *)
(***************************************************************************)
ScenarioInit ==
    /\ pc = "idle"
    /\ principal = WInt(DefaultLoanAmount)
    /\ annualRate = DefaultInterestRate
    /\ tenureInMonths = DefaultTenureMonths
    /\ prepayments \in ScenarioPrepaymentMaps
    /\ month = 0
    /\ remainingBalance = WZero
    /\ monthlyRate = WZero
    /\ baseEMI = WZero
    /\ schedule = <<>>
    /\ emi = WZero
    /\ Mounted

\* calculateEMI(principal, annualRate, tenureInMonths)
ScenarioCallEMI ==
    /\ pc = "idle"
    /\ \E u \in PowErrors :
          emi' = calculateEMI_Double(principal, annualRate, tenureInMonths, u)
    /\ pc' = "emi"
    /\ UNCHANGED <<args, locals, component>>

\* generateAmortizationSchedule(principal, annualRate, tenureInMonths,
\* prepayments), up to the loop
ScenarioGenerate ==
    /\ pc = "idle"
    /\ schedule' = <<>>
    /\ IF WLeq(principal, WZero) \/ tenureInMonths <= 0
       THEN /\ pc' = "done"
            /\ UNCHANGED <<month, remainingBalance, monthlyRate, baseEMI>>
       ELSE /\ pc' = "loop"
            /\ month' = 1
            /\ remainingBalance' = principal
            /\ monthlyRate' = MonthlyRate_Double(annualRate)
            /\ \E u \in PowErrors :
                  baseEMI' = calculateEMI_Double(principal, annualRate, tenureInMonths, u)
    /\ UNCHANGED <<args, emi, component>>

\* one iteration of the loop
ScenarioLoopIter ==
    /\ pc = "loop"
    /\ LoopGuard_Double(month, tenureInMonths, remainingBalance)
    /\ LET it == LoopBody_Double(month, remainingBalance, monthlyRate, baseEMI, prepayments)
       IN  /\ schedule' = Append(schedule, it.row)
           /\ remainingBalance' = it.remainingBalance
    /\ month' = month + 1
    /\ UNCHANGED <<pc, args, monthlyRate, baseEMI, emi, component>>

\* the loop condition is false: return schedule
ScenarioReturn ==
    /\ pc = "loop"
    /\ ~LoopGuard_Double(month, tenureInMonths, remainingBalance)
    /\ pc' = "done"
    /\ UNCHANGED <<args, locals, emi, component>>

ScenarioNext == ScenarioCallEMI \/ ScenarioGenerate \/ ScenarioLoopIter \/ ScenarioReturn

SpecScenario == ScenarioInit /\ [][ScenarioNext]_vars

(***************************************************************************)
(* The component App.tsx.  The inputs of the form are texts, sequences of  *)
(* characters, as the state of the component holds them, and the numbers   *)
(* are the ones at full width.  A handler runs to its end in one step,     *)
(* with the render and the effect that follow it; handleCalculate runs in  *)
(* several: up to the loop of generateAmortizationSchedule, one step for   *)
(* each iteration of the loop (ScenarioLoopIter, ScenarioReturn) and for   *)
(* each call of the callbacks of its two reduce calls, pc being "loop",    *)
(* "done", "totalPayment" and "totalInterest" on the way; no other handler *)
(* runs before it has returned.  The state updates of one handler are      *)
(* rendered together.  The catch clause of handleCalculate is not          *)
(* modelled: nothing in the try block throws.                              *)
(***************************************************************************)
Digits == <<"0", "1", "2", "3", "4", "5", "6", "7", "8", "9">>

IsDigit(c) == \E i \in 1 .. 10 : Digits[i] = c

DigitValue(c) == (CHOOSE i \in 1 .. 10 : Digits[i] = c) - 1

\* the first position from i on that holds no digit
DigitsEnd(s, i) ==
    CHOOSE j \in i .. Len(s) + 1 :
       /\ \A k \in i .. j - 1 : IsDigit(s[k])
       /\ j = Len(s) + 1 \/ ~IsDigit(s[j])

\* the natural the digits at the positions i .. j - 1 write
RECURSIVE DigitsValue(_, _, _)
DigitsValue(s, i, j) ==
    IF j <= i THEN 0 ELSE 10 * DigitsValue(s, i, j - 1) + DigitValue(s[j - 1])

\* the first position that holds no blank
BlanksEnd(s) ==
    CHOOSE j \in 1 .. Len(s) + 1 :
       /\ \A k \in 1 .. j - 1 : s[k] = " "
       /\ j = Len(s) + 1 \/ s[j] # " "

NaN == [isNaN |-> TRUE, value |-> WZero]

\* whether a sign stands at the position i
Signed(s, i) == i <= Len(s) /\ s[i] \in {"+", "-"}

SignAt(s, i) == IF Signed(s, i) /\ s[i] = "-" THEN -1 ELSE 1

AfterSign(s, i) == IF Signed(s, i) THEN i + 1 ELSE i

AfterPoint(s, i) == IF i <= Len(s) /\ s[i] = "." THEN i + 1 ELSE i

\* the exponent written at the position i: e or E, a sign, digits; 0 when
\* there is none
ExponentAt(s, i) ==
    IF ~(i <= Len(s) /\ s[i] \in {"e", "E"}) THEN 0
    ELSE Only({Only({IF e1 = e0 THEN 0
                     ELSE SignAt(s, i + 1) * DigitsValue(s, e0, e1) :
                     e1 \in {DigitsEnd(s, e0)}}) :
               e0 \in {AfterSign(s, i + 1)}})

\* the number nearest to mantissa * 10^scale
Decimal(mantissa, scale) ==
    IF scale >= 0 THEN WInt(mantissa * 10 ^ scale)
    ELSE WNum(mantissa, 10 ^ (-scale))

\* parseFloat(s): the longest prefix of s, after its leading blanks, that is
\* a decimal literal (a sign, digits i0 .. i1 - 1, a point and digits
\* f0 .. f1 - 1, an exponent), as a number, and NaN when there is no digit.
\* The text Infinity is not among the inputs.
parseFloat(s) ==
    Only({Only({Only({Only({Only({
        IF i1 = i0 /\ f1 = f0 THEN NaN
        ELSE [isNaN |-> FALSE,
              value |-> Decimal(SignAt(s, b) * (DigitsValue(s, i0, i1) * 10 ^ (f1 - f0)
                                                + DigitsValue(s, f0, f1)),
                                ExponentAt(s, f1) - (f1 - f0))] :
        f1 \in {DigitsEnd(s, f0)}}) :
        f0 \in {AfterPoint(s, i1)}}) :
        i1 \in {DigitsEnd(s, i0)}}) :
        i0 \in {AfterSign(s, b)}}) :
        b \in {BlanksEnd(s)}})

\* x || 0 for the number x
OrZero(x) == IF x.isNaN THEN WZero ELSE x.value

\* the natural a of at most two limbs as an integer, and Limb^2 for a larger
\* one
BValue(a) == IF Len(a) > 2 THEN Limb * Limb ELSE At(a, 1) + At(a, 2) * Limb

\* Math.round(x), the integer nearest to x, the upper one of two: with
\* y = 2 * |x|, floor((floor(y) + 1) / 2) for x >= 0, and
\* -ceil((ceil(y) - 1) / 2) for x < 0.  A result beyond Limb^2 stands as
\* +-Limb^2.
MathRound(x) ==
    Only({IF v[1] = 0 THEN 0
          ELSE IF v[3] >= 0 THEN v[1] * Limb * Limb
          ELSE Only({Only({IF v[1] > 0 THEN (q + 1) \div 2
                           ELSE IF y[2] THEN -((q + 1) \div 2)
                           ELSE -(q \div 2) :
                           q \in {BValue(y[1])}}) :
                     y \in {BShr(v[2], -v[3] - 1)}}) :
          v \in {x}})

\* the texts the user enters
Chars0 == <<"0">>

Chars200000000 == <<"2", "0", "0", "0", "0", "0", "0", "0", "0">>

Chars51 == <<"5", "1">>

Chars50 == <<"5", "0">>

Chars100000000 == <<"1", "0", "0", "0", "0", "0", "0", "0", "0">>

CharsMinus1 == <<"-", "1">>

Chars0p01 == <<"0", ".", "0", "1">>

Chars601 == <<"6", "0", "1">>

Chars500000 == <<"5", "0", "0", "0", "0", "0">>

CharsMinus5 == <<"-", "5">>

LoanAmountInputs == {Chars1000000, Chars0, Chars200000000}

InterestRateInputs == {Chars8p5, Chars51, CharsMinus1}

TenureInputs == {Chars20, Chars0p01, Chars601}

TenureUnits == {"years", "months"}

\* the rows whose prepayment field the user leaves, and what the field holds
PrepaymentMonths == {1, 2}

PrepaymentInputs == {Chars500000, <<>>, CharsMinus5}

\* the keys of errors; a key that is absent holds NoError
NoError == ""

NoErrors == [loanAmount |-> NoError, interestRate |-> NoError, tenure |-> NoError]

\* const p, r, t of validateInputs and of handleCalculate, for the closure c
ParsedInputs(c) ==
    [p |-> OrZero(parseFloat(c.loanAmount)),
     r |-> OrZero(parseFloat(c.interestRate)),
     t |-> OrZero(parseFloat(c.tenure))]

MaxLoanAmount == 100000000

MaxInterestRate == 50

MaxTenureYears == 50

MaxTenureMonths == 600

\* newErrors of validateInputs; a later assignment to a key replaces an
\* earlier one
validateInputs(c) ==
    Only({[loanAmount |->
              IF WLess(WInt(MaxLoanAmount), v.p)
              THEN "Loan amount cannot exceed 100 million"
              ELSE IF WLeq(v.p, WZero) THEN "Loan amount must be greater than 0"
              ELSE NoError,
           interestRate |->
              IF WLess(WInt(MaxInterestRate), v.r)
              THEN "Interest rate cannot exceed 50%"
              ELSE IF WLess(v.r, WZero) THEN "Interest rate cannot be negative"
              ELSE NoError,
           tenure |->
              IF c.tenureUnit = "months" /\ WLess(WInt(MaxTenureMonths), v.t)
              THEN "Tenure cannot exceed 600 months"
              ELSE IF c.tenureUnit = "years" /\ WLess(WInt(MaxTenureYears), v.t)
              THEN "Tenure cannot exceed 50 years"
              ELSE IF WLeq(v.t, WZero) THEN "Tenure must be greater than 0"
              ELSE NoError] : v \in {ParsedInputs(c)}})

\* const n of handleCalculate
MonthCount(unit, t) ==
    IF unit = "years" THEN MathRound(WMul(t, WInt(12))) ELSE MathRound(t)

\* the test of n in handleCalculate that returns early
MonthCountRejected_Never(n) == FALSE

MonthCountRejected(n) == n <= 0 \/ n > MaxTenureMonths

\* setEmiDetails(null); setSchedule([])
ResultsCleared_Kept(a) == a

ResultsCleared(a) == [a EXCEPT !.emiDetails = <<>>, !.schedule = <<>>]

\* the least timeout id that neither a pending timeout nor handler holds
NewTimeoutId ==
    CHOOSE i \in 1 .. Cardinality(timers) + 2 :
       /\ i # handler
       /\ \A t \in timers : t.id # i
       /\ \A j \in 1 .. i - 1 : j = handler \/ \E t \in timers : t.id = j

\* the cleanup of the debounce effect, clearTimeout(handler): the timeouts
\* ts without the one of id h
Cleanup_Nothing(ts, h) == ts

Cleanup(ts, h) == {t \in ts : t.id # h}

\* the debounce effect after the render of the state a, whose handleCalculate
\* is a new one: the cleanup of its previous run, then its body; ts are the
\* timeouts pending before
Debounce(a, ts) ==
    /\ timers' = Cleanup(ts, handler) \cup {Timeout(NewTimeoutId, a)}
    /\ handler' = NewTimeoutId

\* the render of the state a after a handler: the effect runs when a
\* dependency of handleCalculate is another value
Render(a, ts) ==
    /\ app' = a
    /\ IF Closure(a) # Closure(app) THEN Debounce(a, ts)
       ELSE timers' = ts /\ handler' = handler

engine == <<pc, principal, annualRate, tenureInMonths, prepayments,
            month, remainingBalance, monthlyRate, baseEMI, schedule, emi>>

\* no call of the calculator under way
EngineAtRest ==
    /\ pc = "idle"
    /\ principal = WZero
    /\ annualRate = WZero
    /\ tenureInMonths = 0
    /\ prepayments = <<>>
    /\ month = 0
    /\ remainingBalance = WZero
    /\ monthlyRate = WZero
    /\ baseEMI = WZero
    /\ schedule = <<>>
    /\ emi = WZero

AppInit == EngineAtRest /\ Mounted

\* handleLoanAmountChange(value)
HandleLoanAmountChange ==
    /\ pc = "idle"
    /\ \E value \in LoanAmountInputs :
          Render([app EXCEPT !.loanAmount = value, !.errors.loanAmount = NoError], timers)
    /\ UNCHANGED <<engine, totals>>

\* handleInterestRateChange(value)
HandleInterestRateChange ==
    /\ pc = "idle"
    /\ \E value \in InterestRateInputs :
          Render([app EXCEPT !.interestRate = value, !.errors.interestRate = NoError], timers)
    /\ UNCHANGED <<engine, totals>>

\* handleTenureChange(value)
HandleTenureChange ==
    /\ pc = "idle"
    /\ \E value \in TenureInputs :
          Render([app EXCEPT !.tenure = value, !.errors.tenure = NoError], timers)
    /\ UNCHANGED <<engine, totals>>

\* setTenureUnit(unit) of the two buttons
SetTenureUnit ==
    /\ pc = "idle"
    /\ \E unit \in TenureUnits : Render([app EXCEPT !.tenureUnit = unit], timers)
    /\ UNCHANGED <<engine, totals>>

\* handlePrepaymentChange without the test of the sign
NewPrepayments_AnySign(pre, m, amount) ==
    Only({IF ~newAmount.isNaN
          THEN [j \in DOMAIN pre \cup {m} |->
                   IF j = m THEN newAmount.value ELSE pre[j]]
          ELSE [j \in DOMAIN pre \ {m} |-> pre[j]] :
          newAmount \in {parseFloat(amount)}})

\* newPrepayments of handlePrepaymentChange(m, amount) for the state pre
NewPrepayments(pre, m, amount) ==
    Only({IF ~newAmount.isNaN /\ WLess(WZero, newAmount.value)
          THEN [j \in DOMAIN pre \cup {m} |->
                   IF j = m THEN newAmount.value ELSE pre[j]]
          ELSE [j \in DOMAIN pre \ {m} |-> pre[j]] :
          newAmount \in {parseFloat(amount)}})

\* handlePrepaymentChange(m, amount): the state is a new object each time,
\* so the effect runs
HandlePrepaymentChange ==
    /\ pc = "idle"
    /\ \E m \in PrepaymentMonths, amount \in PrepaymentInputs :
          LET a == [app EXCEPT !.prepayments = NewPrepayments(@, m, amount)]
          IN  app' = a /\ Debounce(a, timers)
    /\ UNCHANGED <<engine, totals>>

\* the return of handleCalculate: the state a is rendered and the locals of
\* the call are gone; ts are the timeouts pending
Finish(a, ts) ==
    /\ Render([a EXCEPT !.isCalculating = FALSE], ts)
    /\ pc' = "idle"
    /\ principal' = WZero
    /\ annualRate' = WZero
    /\ tenureInMonths' = 0
    /\ prepayments' = <<>>
    /\ month' = 0
    /\ remainingBalance' = WZero
    /\ monthlyRate' = WZero
    /\ baseEMI' = WZero
    /\ schedule' = <<>>
    /\ emi' = WZero
    /\ totals' = <<>>

\* handleCalculate() of the closure c, up to its return or up to the loop of
\* generateAmortizationSchedule(p, r, n, prepayments); ts are the timeouts
\* pending.  Math.pow is taken as correctly rounded.
HandleCalculate(c, ts) ==
    \E e \in {validateInputs(c)}, v \in {ParsedInputs(c)} :
    \E n \in {MonthCount(c.tenureUnit, v.t)}, validated \in {[app EXCEPT !.errors = e]} :
        IF e # NoErrors THEN Finish(ResultsCleared(validated), ts)
        ELSE IF WLeq(v.p, WZero) \/ WLeq(v.t, WZero) \/ WLess(v.r, WZero)
        THEN Finish(ResultsCleared(validated), ts)
        ELSE IF WLess(WInt(MaxLoanAmount), v.p)
        THEN Finish([validated EXCEPT !.loanAmount = Chars100000000], ts)
        ELSE IF WLess(WInt(MaxInterestRate), v.r)
        THEN Finish([validated EXCEPT !.interestRate = Chars50], ts)
        ELSE IF MonthCountRejected(n) THEN Finish(validated, ts)
        ELSE /\ app' = [validated EXCEPT !.isCalculating = TRUE]
             /\ principal' = v.p
             /\ annualRate' = v.r
             /\ tenureInMonths' = n
             /\ prepayments' = c.prepayments
             /\ schedule' = <<>>
             /\ IF WLeq(v.p, WZero) \/ n <= 0
                THEN /\ pc' = "done"
                     /\ UNCHANGED <<month, remainingBalance, monthlyRate, baseEMI>>
                ELSE /\ pc' = "loop"
                     /\ month' = 1
                     /\ remainingBalance' = v.p
                     /\ monthlyRate' = MonthlyRate_Double(v.r)
                     /\ baseEMI' = calculateEMI_Double(v.p, v.r, n, 0)
             /\ timers' = ts
             /\ UNCHANGED <<emi, handler, totals>>

\* a pending timeout runs its callback
TimeoutFires ==
    /\ pc = "idle"
    /\ \E t \in timers : HandleCalculate(t.inputs, timers \ {t})

\* the callbacks of the two reduce calls
AddTotalPayment(acc, curr) == WAdd(acc, curr.totalPayment)

AddInterest_OfPrincipal(acc, curr) == WAdd(acc, curr.principal)

AddInterest(acc, curr) == WAdd(acc, curr.interest)

\* generateAmortizationSchedule has returned calculatedSchedule
ScheduleReturned ==
    /\ pc = "done"
    /\ IF Len(schedule) = 0 THEN Finish(app, timers)
       ELSE /\ pc' = "totalPayment"
            /\ totals' = <<[rows |-> 0, totalPayment |-> WZero, totalInterest |-> WZero]>>
            /\ UNCHANGED <<args, locals, emi, app, timers, handler>>

\* one call of the callback of calculatedSchedule.reduce((acc, curr) =>
\* acc + curr.totalPayment, 0)
ReduceTotalPayment ==
    /\ pc = "totalPayment"
    /\ \E acc \in {AddTotalPayment(totals[1].totalPayment,
                               schedule[totals[1].rows + 1])} :
           IF totals[1].rows + 1 < Len(schedule)
           THEN /\ totals' = <<[totals[1] EXCEPT !.rows = @ + 1, !.totalPayment = acc]>>
                /\ pc' = pc
           ELSE /\ totals' = <<[totals[1] EXCEPT !.rows = 0, !.totalPayment = acc]>>
                /\ pc' = "totalInterest"
    /\ UNCHANGED <<args, locals, emi, app, timers, handler>>

\* one call of the callback of calculatedSchedule.reduce((acc, curr) =>
\* acc + curr.interest, 0), and after the last one the rest of handleCalculate
ReduceTotalInterest ==
    /\ pc = "totalInterest"
    /\ \E acc \in {AddInterest(totals[1].totalInterest,
                           schedule[totals[1].rows + 1])} :
           IF totals[1].rows + 1 < Len(schedule)
           THEN /\ totals' = <<[totals[1] EXCEPT !.rows = @ + 1, !.totalInterest = acc]>>
                /\ UNCHANGED <<engine, app, timers, handler>>
           ELSE Finish([app EXCEPT
                          !.schedule = schedule,
                          !.emiDetails =
                             <<[emi |-> calculateEMI_Double(principal, annualRate,
                                                            tenureInMonths, 0),
                                totalInterest |-> acc,
                                totalPayment |-> totals[1].totalPayment,
                                principal |-> principal,
                                actualTenure |-> Len(schedule)]>>], timers)

AppNext ==
    \/ HandleLoanAmountChange
    \/ HandleInterestRateChange
    \/ HandleTenureChange
    \/ SetTenureUnit
    \/ HandlePrepaymentChange
    \/ TimeoutFires
    \/ ScenarioLoopIter
    \/ ScenarioReturn
    \/ ScheduleReturned
    \/ ReduceTotalPayment
    \/ ReduceTotalInterest

SpecApp == AppInit /\ [][AppNext]_vars

(***************************************************************************)
(* Vocabulary of the properties                                            *)
(***************************************************************************)
Returned == pc = "done"

\* the domain of LoanTerms: a positive principal and tenure
PositiveLoan == RLess(Zero, principal) /\ tenureInMonths > 0

Rows == 1 .. Len(schedule)

LastRow == schedule[Len(schedule)]

\* the schedule of the same loan with no prepayments
Baseline ==
    generateAmortizationSchedule(principal, annualRate, tenureInMonths, NoPrepayments)

\* the exact sum over the rows of principal + prepayment
RECURSIVE Repaid(_)
Repaid(s) ==
    IF s = <<>> THEN Zero
    ELSE RAdd(RAdd(Head(s).principal, Head(s).prepayment), Repaid(Tail(s)))

\* the row of month k had its prepayment cut down (closingBalance < 0 at
\* the adjustment)
Cut(k) ==
    RLess(FSub(FSub(schedule[k].openingBalance, schedule[k].principal),
               PrepaymentOf(prepayments, k)), Zero)

(***************************************************************************)
(* C1  With principal > 0, rate >= 0, tenure > 0 and no prepayments the    *)
(* schedule has exactly tenure rows and the last closingBalance is within  *)
(* 0.01 of 0.                                                              *)
(***************************************************************************)
C1_ExactlyTenureRows ==
    (Returned /\ PositiveLoan /\ RLeq(Zero, annualRate) /\ prepayments = NoPrepayments)
        => /\ Len(schedule) = tenureInMonths
           /\ RLeq(LastRow.closingBalance, Epsilon)

(***************************************************************************)
(* C2  Original statement: in every row closingBalance = openingBalance -  *)
(* principal - prepayment on the recorded values, and closingBalance >= 0. *)
(***************************************************************************)
C2_RowBalanceEquation ==
    \A i \in Rows :
        /\ schedule[i].closingBalance
              = FSub(FSub(schedule[i].openingBalance, schedule[i].principal),
                     schedule[i].prepayment)
        /\ RLeq(Zero, schedule[i].closingBalance)

(***************************************************************************)
(* C2  As amended: in every row closingBalance >= 0.  In a row whose       *)
(* prepayment was not cut down, closingBalance = openingBalance -          *)
(* principal - prepayment on the recorded values.  In a row whose          *)
(* prepayment was cut down, closingBalance is exactly 0 and the recorded   *)
(* prepayment is between 0 and the prepayment entered; there the equation  *)
(* holds only up to the rounding of the recorded prepayment.               *)
(***************************************************************************)
C2_RowBalanceUpToRounding ==
    \A i \in Rows :
        /\ RLeq(Zero, schedule[i].closingBalance)
        /\ IF Cut(i)
           THEN /\ schedule[i].closingBalance = Zero
                /\ RLeq(Zero, schedule[i].prepayment)
                /\ RLeq(schedule[i].prepayment, PrepaymentOf(prepayments, i))
           ELSE /\ schedule[i].prepayment = PrepaymentOf(prepayments, i)
                /\ schedule[i].closingBalance
                      = FSub(FSub(schedule[i].openingBalance, schedule[i].principal),
                             schedule[i].prepayment)

\* a schedule with a prepayment taken in full and a later one cut down
C2_Witness ==
    \E i, j \in Rows :
        /\ i < j
        /\ ~Cut(i)
        /\ RLess(Zero, schedule[i].prepayment)
        /\ Cut(j)
        /\ RLess(Zero, schedule[j].prepayment)

(***************************************************************************)
(* C3  The rows' principal + prepayment add up to the original principal,  *)
(* within 0.01: every returned schedule of a loan amortizes it.            *)
(***************************************************************************)
C3_FullyAmortized ==
    (Returned /\ PositiveLoan)
        => RLeq(RAbs(RSub(principal, Repaid(schedule))), Epsilon)

(***************************************************************************)
(* C4  With prepayments the schedule has at most as many rows as the       *)
(* schedule of the same principal, rate and tenure without prepayments.    *)
(***************************************************************************)
C4_PrepaymentsNeverLengthen ==
    Returned => Len(schedule) <= Len(Baseline)

C4_Witness ==
    /\ Returned
    /\ prepayments # NoPrepayments
    /\ Len(schedule) >= 1
    /\ Len(schedule) < Len(Baseline)

(***************************************************************************)
(* C5  Original statement: a prepayment entered for month k that exceeds   *)
(* openingBalance - principal of that month is recorded as openingBalance  *)
(* - principal, the row's closingBalance is exactly 0, and it is the last  *)
(* row.                                                                    *)
(***************************************************************************)
C5_OverpaymentSettles ==
    \A k \in Rows :
        RLess(FSub(schedule[k].openingBalance, schedule[k].principal),
              PrepaymentOf(prepayments, k))
            => /\ schedule[k].prepayment
                     = FSub(schedule[k].openingBalance, schedule[k].principal)
               /\ schedule[k].closingBalance = Zero
               /\ k = Len(schedule)
               /\ ~LoopGuard(month, tenureInMonths, remainingBalance)

(***************************************************************************)
(* C5  As amended: a prepayment entered for month k that exceeds           *)
(* openingBalance - principal of that month is recorded as prepayment +    *)
(* (openingBalance - principal - prepayment), evaluated in that order,     *)
(* which is openingBalance - principal up to rounding; the row's           *)
(* closingBalance is exactly 0, and it is the last row.                    *)
(***************************************************************************)
C5_OverpaymentCutDown ==
    \A k \in Rows :
        RLess(FSub(schedule[k].openingBalance, schedule[k].principal),
              PrepaymentOf(prepayments, k))
            => /\ schedule[k].prepayment
                     = FAdd(PrepaymentOf(prepayments, k),
                            FSub(FSub(schedule[k].openingBalance, schedule[k].principal),
                                 PrepaymentOf(prepayments, k)))
               /\ schedule[k].closingBalance = Zero
               /\ k = Len(schedule)
               /\ ~LoopGuard(month, tenureInMonths, remainingBalance)

C5_Witness ==
    /\ Returned
    /\ Len(schedule) >= 2
    /\ Len(schedule) < tenureInMonths
    /\ RLess(FSub(LastRow.openingBalance, LastRow.principal),
             PrepaymentOf(prepayments, Len(schedule)))
    /\ RLess(Zero, LastRow.prepayment)

C7_BalancesChain ==
    /\ \A i \in Rows :
          i < Len(schedule) => schedule[i].closingBalance = schedule[i + 1].openingBalance
    /\ Len(schedule) > 0 => schedule[1].openingBalance = principal

C7_Witness ==
    /\ Len(schedule) >= 3
    /\ RLess(Zero, schedule[1].prepayment)
    /\ RLess(Zero, schedule[2].prepayment)
    /\ schedule[2].closingBalance = schedule[3].openingBalance

(***************************************************************************)
(* C8  The installment is computed once from the original principal, rate  *)
(* and tenure: in every row, also after prepayments, principal =           *)
(* max(0, min(calculateEMI(principal, rate, tenure) - interest,            *)
(* openingBalance)).                                                       *)
(***************************************************************************)
C8_InstallmentHeldConstant ==
    \A i \in Rows :
        schedule[i].principal
            = RMax(Zero,
                   RMin(FSub(calculateEMI(principal, annualRate, tenureInMonths),
                             schedule[i].interest),
                        schedule[i].openingBalance))

\* a row after a prepayment, paying the full original installment
C8_Witness ==
    \E i \in Rows :
        /\ i >= 2
        /\ RLess(Zero, schedule[i - 1].prepayment)
        /\ RLess(Zero, annualRate)
        /\ RLess(schedule[i].principal, schedule[i].openingBalance)
        /\ schedule[i].principal
              = FSub(calculateEMI(principal, annualRate, tenureInMonths),
                     schedule[i].interest)

(***************************************************************************)
(* C9  With principal <= 0 or tenureInMonths <= 0,                         *)
(* generateAmortizationSchedule returns at its guard: the loop is never    *)
(* entered and the schedule returned is empty, for every rate and          *)
(* prepayment map.                                                         *)
(***************************************************************************)
C9_EmptyForNonPositive ==
    (RLeq(principal, Zero) \/ tenureInMonths <= 0)
        => /\ pc # "loop"
           /\ schedule = <<>>

C9_Witness ==
    /\ Returned
    /\ RLess(Zero, principal)
    /\ tenureInMonths <= 0
    /\ prepayments # NoPrepayments
    /\ schedule = <<>>

(***************************************************************************)
(* C10  calculateEMI returns 0 whenever principal <= 0 or tenureInMonths   *)
(* <= 0, for every rate.                                                   *)
(***************************************************************************)
C10_ZeroForNonPositive ==
    (pc = "emi" /\ (RLeq(principal, Zero) \/ tenureInMonths <= 0))
        => emi = Zero

C10_Witness ==
    /\ pc = "emi"
    /\ RLess(Zero, principal)
    /\ tenureInMonths < 0
    /\ RLess(Zero, annualRate)
    /\ emi = Zero

(***************************************************************************)
(* C11  For principal > 0 and tenureInMonths > 0, calculateEMI with        *)
(* annualRate <= 0 returns principal / tenureInMonths, a finite number:    *)
(* the annuity formula, which divides by zero at rate 0, is not evaluated. *)
(***************************************************************************)
C11_StraightLineAtZeroRate ==
    (pc = "emi" /\ PositiveLoan /\ RLeq(annualRate, Zero))
        => /\ emi = FDiv(principal, Num(tenureInMonths, 1))
           /\ emi[2] # 0

\* calculateEMI has returned a third of the principal at rate 0
C11_Witness ==
    /\ pc = "emi"
    /\ annualRate = Zero
    /\ tenureInMonths = 3
    /\ principal = Num(1000, 1)
    /\ emi = FDiv(Num(1000, 1), Num(3, 1))

(***************************************************************************)
(* C12  For principal > 0, tenure n > 0 and annualRate > 0, calculateEMI   *)
(* returns the closed-form annuity payment principal * r * (1+r)^n /       *)
(* ((1+r)^n - 1) with r = annualRate / 12 / 100: a finite number that      *)
(* agrees with the exact value of the formula up to the rounding of the    *)
(* arithmetic (RelTolerance, 32 units in the last place).                  *)
(***************************************************************************)
RelTolerance == Norm(1, Pow2(Prec - 5))

\* the exact value of EMI = P x r x (1 + r)^n / ((1 + r)^n - 1)
AnnuityExact(P, rate, n) ==
    LET r == RDiv(RDiv(rate, <<12, 1>>), <<100, 1>>)
        pow == RPow(RAdd(One, r), n)
    IN  RDiv(RMul(RMul(P, r), pow), RSub(pow, One))

C12_MatchesClosedForm ==
    (pc = "emi" /\ PositiveLoan /\ RLess(Zero, annualRate))
        => /\ emi[2] # 0
           /\ LET exact == AnnuityExact(principal, annualRate, tenureInMonths)
              IN  RLeq(RAbs(RSub(emi, exact)), RMul(exact, RelTolerance))

(***************************************************************************)
(* C13  Every field of every row (openingBalance, interest, principal,     *)
(* prepayment, totalPayment, closingBalance) is a number >= 0, whatever    *)
(* the amounts in the prepayment map, negative ones included.              *)
(***************************************************************************)
AmountFields ==
    {"openingBalance", "interest", "principal", "prepayment", "totalPayment",
     "closingBalance"}

C14_PrepaymentsNotModified == [][prepayments' = prepayments]_vars

\* the call has returned after reading an entry of the map in each of two
\* months
C14_Witness ==
    /\ Returned
    /\ Len(schedule) >= 2
    /\ {1, 2} \subseteq DOMAIN prepayments
    /\ RLess(Zero, schedule[1].prepayment)
    /\ RLess(Zero, schedule[2].prepayment)

(***************************************************************************)
(* C15  Adding a positive prepayment to a loan never increases the total   *)
(* interest: the sum of the interest column of a schedule is at most the   *)
(* sum for the same loan with any one of its prepayments left out.         *)
(***************************************************************************)
\* the sum of the interest column, added up from 0 row by row
RECURSIVE TotalInterest(_)
TotalInterest(s) ==
    IF s = <<>> THEN Zero
    ELSE FAdd(TotalInterest(SubSeq(s, 1, Len(s) - 1)), s[Len(s)].interest)

\* the prepayment map without its entry for month k
Without(pre, k) == [j \in DOMAIN pre \ {k} |-> pre[j]]

C15_PrepaymentNeverAddsInterest ==
    Returned =>
        \A k \in DOMAIN prepayments :
            RLeq(TotalInterest(schedule),
                 TotalInterest(generateAmortizationSchedule(
                     principal, annualRate, tenureInMonths, Without(prepayments, k))))

\* a prepayment in month 1, taken in full, that lowers the total interest
C15_Witness ==
    /\ Returned
    /\ 1 \in DOMAIN prepayments
    /\ Len(schedule) >= 2
    /\ ~Cut(1)
    /\ RLess(Zero, TotalInterest(schedule))
    /\ RLess(TotalInterest(schedule),
             TotalInterest(generateAmortizationSchedule(
                 principal, annualRate, tenureInMonths, Without(prepayments, 1))))

(***************************************************************************)
(* C16  calculateEMI(1000000, 8.5, 240) agrees with 8678.31 when rounded   *)
(*      to two decimals.  Stated of the call on the default inputs at full *)
(*      width, for every error of Math.pow: the code returns               *)
(*      8678.2323..., which rounds to 8678.23.                             *)
(***************************************************************************)
\* the loan App.tsx starts with
DefaultLoan ==
    /\ principal = WInt(DefaultLoanAmount)
    /\ annualRate = DefaultInterestRate
    /\ tenureInMonths = DefaultTenureMonths

\* x rounded to two decimals is cents / 100
AgreesToCents(x, cents) ==
    /\ WLeq(WNum(2 * cents - 1, 200), x)
    /\ WLess(x, WNum(2 * cents + 1, 200))

\* C16 as stated: the installment of the default loan rounds to 8678.31
C16_InstallmentRoundsTo867831 ==
    (pc = "emi" /\ DefaultLoan) => AgreesToCents(emi, 867831)

\* C16 amended: the installment of the default loan rounds to 8678.23
C16_InstallmentRoundsTo867823 ==
    (pc = "emi" /\ DefaultLoan) => AgreesToCents(emi, 867823)

C16_Witness ==
    /\ pc = "emi"
    /\ DefaultLoan
    /\ WLess(WInt(8678), emi)
    /\ WLess(emi, WInt(8679))

(***************************************************************************)
(* C17  For the default loan with a prepayment of 500,000 at month 1, the  *)
(*      first row's closingBalance is 1,000,000 - (EMI - first-month       *)
(*      interest) - 500,000, and the schedule has fewer than 240 rows.     *)
(***************************************************************************)
PrepaysHalfAtMonthOne == prepayments = [k \in {1} |-> WInt(500000)]

C17_PrepaidFirstRowAndShorterSchedule ==
    (Returned /\ DefaultLoan /\ PrepaysHalfAtMonthOne) =>
        /\ Len(schedule) >= 1
        /\ schedule[1].closingBalance =
              WSub(WSub(WInt(1000000), WSub(baseEMI, schedule[1].interest)),
                   WInt(500000))
        /\ Len(schedule) < 240

C17_Witness ==
    /\ Returned
    /\ DefaultLoan
    /\ PrepaysHalfAtMonthOne
    /\ Len(schedule) > 1
    /\ schedule[1].prepayment = WInt(500000)
    /\ WLess(schedule[1].closingBalance, WInt(500000))

(***************************************************************************)
(* C18  In every row interest = openingBalance * monthlyRate, where        *)
(* monthlyRate = annualRate / 12 / 100 when annualRate > 0 and 0           *)
(* otherwise; with a non-positive rate every row has interest 0.           *)
(***************************************************************************)
C18_InterestOnOpeningBalance ==
    \A i \in Rows :
        /\ RLess(Zero, annualRate)
              => schedule[i].interest
                    = FMul(schedule[i].openingBalance,
                           FDiv(FDiv(annualRate, Num(12, 1)), Num(100, 1)))
        /\ RLeq(annualRate, Zero) => schedule[i].interest = Zero

\* interest charged on the balance a prepayment left
C18_Witness ==
    \E i \in Rows :
        /\ i >= 2
        /\ RLess(Zero, schedule[i - 1].prepayment)
        /\ RLess(Zero, schedule[i].interest)
        /\ RLess(schedule[i].interest, schedule[1].interest)

(***************************************************************************)
(* C19  In every row the recorded totalPayment equals the recorded         *)
(* interest + principal + prepayment of that row.                          *)
(***************************************************************************)
C19_TotalIsSumOfParts ==
    \A i \in Rows :
        schedule[i].totalPayment
            = FAdd(FAdd(schedule[i].interest, schedule[i].principal),
                   schedule[i].prepayment)

\* a row with interest, principal and a prepayment that was cut down
C19_Witness ==
    \E i \in Rows :
        /\ Cut(i)
        /\ RLess(Zero, schedule[i].interest)
        /\ RLess(Zero, schedule[i].principal)
        /\ RLess(Zero, schedule[i].prepayment)
        /\ RLess(schedule[i].prepayment, PrepaymentOf(prepayments, i))

C21_TerminatesWithinTenure ==
    /\ [](pc = "loop" => /\ Len(schedule) = month - 1
                         /\ month <= tenureInMonths + 1)
    /\ [][(pc = "loop" /\ pc' = "loop") =>
             /\ Len(schedule') = Len(schedule) + 1
             /\ SubSeq(schedule', 1, Len(schedule)) = schedule
             /\ month' = month + 1]_vars
    /\ (pc = "loop" ~> Returned)

C21_Witness ==
    /\ Returned
    /\ PositiveLoan
    /\ Len(schedule) >= 2
    /\ Len(schedule) = tenureInMonths

(***************************************************************************)
(* C22  A prepayment keyed at month k changes nothing before month k: the  *)
(*      rows 1..k-1 of the schedule are those of the schedule generated    *)
(*      from the same inputs without that entry.                           *)
(***************************************************************************)
\* the rows 1..j of s, or all of s when it has fewer
RowsUpTo(s, j) == SubSeq(s, 1, IF j < Len(s) THEN j ELSE Len(s))

C22_NoEffectBeforeItsMonth ==
    Returned =>
        \A k \in DOMAIN prepayments :
            RowsUpTo(schedule, k - 1) =
                RowsUpTo(generateAmortizationSchedule(
                             principal, annualRate, tenureInMonths,
                             Without(prepayments, k)), k - 1)

C22_Witness ==
    /\ Returned
    /\ \E k \in DOMAIN prepayments :
          /\ k >= 2
          /\ Len(schedule) >= k
          /\ schedule[k].prepayment # Zero
          /\ schedule # generateAmortizationSchedule(
                            principal, annualRate, tenureInMonths,
                            Without(prepayments, k))

(***************************************************************************)
(* C23  Prepayment entries whose key is not a month for which a row is     *)
(*      produced (key < 1, key > tenureInMonths, or key after the month in *)
(*      which the balance reached the epsilon) have no effect: the         *)
(*      schedule equals the one generated without those entries.           *)
(***************************************************************************)
\* the entries of pre whose key is the month of a row of s
EntriesOfRows(pre, s) == [k \in DOMAIN pre \cap (1 .. Len(s)) |-> pre[k]]

C23_OnlyEntriesOfRowsCount ==
    Returned =>
        schedule = generateAmortizationSchedule(
                       principal, annualRate, tenureInMonths,
                       EntriesOfRows(prepayments, schedule))

\* a loan repaid in month 1 of 2, with entries at 0, 2 (after the payoff)
\* and 3 (after the tenure)
C23_Witness ==
    /\ Returned
    /\ tenureInMonths = 2
    /\ Len(schedule) = 1
    /\ schedule[1].prepayment # Zero
    /\ {0, 2, 3} \subseteq DOMAIN prepayments

\* a call of generateAmortizationSchedule made by handleCalculate is under
\* way, or its result is being summed
Calculating == pc \in {"loop", "done", "totalPayment", "totalInterest"}

\* the step in which handleCalculate calls generateAmortizationSchedule
CallsGenerator == pc = "idle" /\ pc' \in {"loop", "done"}

\* the limits the form states for the arguments p, r and n of a call
WithinLimits(p, r, n) ==
    /\ WLess(WZero, p) /\ WLeq(p, WInt(100000000))
    /\ WLeq(WZero, r) /\ WLeq(r, WInt(50))
    /\ n \in 1 .. 600

\* C24: handleCalculate calls generateAmortizationSchedule only with
\* validated arguments: the principal is the amount entered and lies in
\* (0, 100,000,000], the rate is the rate entered and lies in [0, 50], and
\* the month count is an integer of 1 .. 600, Math.round(tenure * 12) for
\* years and Math.round(tenure) for months.
C24_GeneratorGetsValidatedArguments ==
    /\ [](Calculating => WithinLimits(principal, annualRate, tenureInMonths))
    /\ [][CallsGenerator =>
            \E t \in timers \ timers' :
               \E v \in {ParsedInputs(t.inputs)} :
                  /\ principal' = v.p
                  /\ annualRate' = v.r
                  /\ tenureInMonths' = IF t.inputs.tenureUnit = "years"
                                       THEN MathRound(WMul(v.t, WInt(12)))
                                       ELSE MathRound(v.t)
                  /\ prepayments' = t.inputs.prepayments
                  /\ WithinLimits(principal', annualRate', tenureInMonths')]_vars

\* the generator is running on the default amount and rate over 20 months
C24_Witness ==
    /\ pc = "loop"
    /\ app.tenureUnit = "months"
    /\ principal = WInt(1000000)
    /\ annualRate = WNum(17, 2)
    /\ tenureInMonths = 20

\* the step in which the timeout t runs handleCalculate: t is no longer
\* pending and no timeout has been started
Fires(t) == pc = "idle" /\ t \in timers /\ timers' = timers \ {t} /\ handler' = handler

\* the violations of the limits of the form, for the values v and the unit
AmountViolation(v) == WLeq(v.p, WZero) \/ WLess(WInt(100000000), v.p)

RateViolation(v) == WLess(v.r, WZero) \/ WLess(WInt(50), v.r)

TenureViolation(v, unit) ==
    \/ WLeq(v.t, WZero)
    \/ unit = "years" /\ WLess(WInt(50), v.t)
    \/ unit = "months" /\ WLess(WInt(600), v.t)

\* C25: when the inputs of a run of handleCalculate violate a limit (amount
\* <= 0 or > 100 million, rate < 0 or > 50, tenure <= 0 or above 50 years /
\* 600 months), the run leaves a message under the key of each field in
\* violation and under no other key, emiDetails null and schedule empty, and
\* makes no call of the generator.
C25_ViolationClearsResults ==
    [][\A t \in timers :
          Fires(t) =>
             \A v \in {ParsedInputs(t.inputs)} :
                (\/ AmountViolation(v)
                 \/ RateViolation(v)
                 \/ TenureViolation(v, t.inputs.tenureUnit))
                => /\ (app'.errors.loanAmount # NoError) = AmountViolation(v)
                   /\ (app'.errors.interestRate # NoError) = RateViolation(v)
                   /\ (app'.errors.tenure # NoError)
                         = TenureViolation(v, t.inputs.tenureUnit)
                   /\ app'.emiDetails = <<>>
                   /\ app'.schedule = <<>>
                   /\ pc' = "idle"]_vars

\* a run on a tenure of 601 months has left its message and no result
C25_Witness ==
    /\ pc = "idle"
    /\ timers = {}
    /\ app.tenure = Chars601
    /\ app.errors.tenure = "Tenure cannot exceed 600 months"
    /\ app.errors.loanAmount = NoError
    /\ app.emiDetails = <<>>
    /\ app.schedule = <<>>

\* the map post is the map pre with x under the key m
SetsEntry(pre, post, m, x) ==
    /\ DOMAIN post = DOMAIN pre \cup {m}
    /\ post[m] = x
    /\ \A j \in DOMAIN pre \ {m} : post[j] = pre[j]

\* the map post is the map pre without the key m
RemovesEntry(pre, post, m) ==
    /\ DOMAIN post = DOMAIN pre \ {m}
    /\ \A j \in DOMAIN post : post[j] = pre[j]

\* the step of a handler that starts the debounce again and leaves the four
\* inputs of the form as they are: a call of handlePrepaymentChange
PrepaymentCall ==
    /\ pc = "idle" /\ pc' = "idle"
    /\ handler' # handler
    /\ app'.loanAmount = app.loanAmount
    /\ app'.interestRate = app.interestRate
    /\ app'.tenure = app.tenure
    /\ app'.tenureUnit = app.tenureUnit

\* C26: every entry of the prepayments state is a number above 0, and a call
\* of handlePrepaymentChange(m, amount) sets the entry of m to the number
\* amount denotes when that is above 0, removes the entry of m when amount
\* is empty, not a number, zero or negative, and leaves the entries of the
\* other months as they are.
C26_PrepaymentsArePositive ==
    /\ [](\A k \in DOMAIN app.prepayments : WLess(WZero, app.prepayments[k]))
    /\ [][PrepaymentCall =>
            \E m \in PrepaymentMonths, amount \in PrepaymentInputs :
               \E x \in {parseFloat(amount)} :
                  IF ~x.isNaN /\ WLess(WZero, x.value)
                  THEN SetsEntry(app.prepayments, app'.prepayments, m, x.value)
                  ELSE RemovesEntry(app.prepayments, app'.prepayments, m)]_vars

\* the entry of month 1 has been removed again and the one of month 2 stays
C26_Witness ==
    /\ DOMAIN app.prepayments = {2}
    /\ app.prepayments[2] = WInt(500000)
    /\ \E t \in timers : DOMAIN t.inputs.prepayments = {2}
    /\ DOMAIN app.schedule # {}
    /\ app.schedule[1].prepayment = WInt(500000)

\* the sums of the first k entries of two columns of the rows s, from 0, in
\* the order of the rows
RECURSIVE InterestOfRows(_, _)
InterestOfRows(s, k) ==
    IF k = 0 THEN WZero ELSE WAdd(InterestOfRows(s, k - 1), s[k].interest)

RECURSIVE TotalPaymentOfRows(_, _)
TotalPaymentOfRows(s, k) ==
    IF k = 0 THEN WZero ELSE WAdd(TotalPaymentOfRows(s, k - 1), s[k].totalPayment)

\* the longest schedule whose columns are summed anew in a state
MaxSummedRows == 24

\* handleCalculate has returned and nothing has been entered since
Settled == pc = "idle" /\ timers = {}

\* C27: the emiDetails and the schedule of the state come from one generated
\* schedule: actualTenure is the number of rows of the stored schedule,
\* totalPayment and totalInterest are the sums of its totalPayment and
\* interest columns.  The sums are followed step by step through the two
\* reduce calls, row after row from 0, and recomputed from the stored
\* schedule when it has at most MaxSummedRows rows.
C27_TotalsOfTheStoredSchedule ==
    /\ [](app.emiDetails # <<>> =>
             /\ app.schedule # <<>>
             /\ app.emiDetails[1].actualTenure = Len(app.schedule))
    /\ [](Settled /\ app.emiDetails # <<>> /\ Len(app.schedule) <= MaxSummedRows =>
             /\ app.emiDetails[1].totalInterest
                   = InterestOfRows(app.schedule, Len(app.schedule))
             /\ app.emiDetails[1].totalPayment
                   = TotalPaymentOfRows(app.schedule, Len(app.schedule)))
    /\ [][/\ pc = "done" /\ pc' = "totalPayment" =>
                totals' = <<[rows |-> 0, totalPayment |-> WZero,
                             totalInterest |-> WZero]>>
          /\ pc \in {"totalPayment", "totalInterest"} =>
                \E k \in {totals[1].rows + 1} :
                   /\ k <= Len(schedule)
                   /\ pc' = pc => totals'[1].rows = k /\ schedule' = schedule
                   /\ pc' # pc => k = Len(schedule)
          /\ pc = "totalPayment" =>
                /\ totals'[1].totalPayment
                      = WAdd(totals[1].totalPayment,
                             schedule[totals[1].rows + 1].totalPayment)
                /\ totals'[1].totalInterest = WZero
                /\ pc' = "totalInterest" => totals'[1].rows = 0 /\ schedule' = schedule
          /\ pc = "totalInterest" /\ pc' = pc =>
                /\ totals'[1].totalInterest
                      = WAdd(totals[1].totalInterest,
                             schedule[totals[1].rows + 1].interest)
                /\ totals'[1].totalPayment = totals[1].totalPayment
          /\ pc = "totalInterest" /\ pc' # pc =>
                /\ app'.schedule = schedule
                /\ app'.emiDetails # <<>>
                /\ app'.emiDetails[1].totalInterest
                      = WAdd(totals[1].totalInterest,
                             schedule[totals[1].rows + 1].interest)
                /\ app'.emiDetails[1].totalPayment = totals[1].totalPayment
                /\ app'.emiDetails[1].actualTenure = Len(schedule)]_vars

\* a loan over 20 months that a prepayment in month 2 ends early: the totals
\* of a schedule shorter than the tenure
C27_Witness ==
    /\ Settled
    /\ app.tenureUnit = "months"
    /\ DOMAIN app.prepayments = {2}
    /\ app.emiDetails # <<>>
    /\ app.emiDetails[1].actualTenure = Len(app.schedule)
    /\ Len(app.schedule) \in 3 .. 19
    /\ WLess(WZero, app.emiDetails[1].totalInterest)

\* a run of handleCalculate on the inputs c produces no schedule: a limit of
\* the form is violated, the month count is outside 1 .. 600, or the amount
\* is so small that the generator returns no row
ProducesNoSchedule(c) ==
    \E v \in {ParsedInputs(c)} :
       \/ AmountViolation(v)
       \/ RateViolation(v)
       \/ TenureViolation(v, c.tenureUnit)
       \/ (IF c.tenureUnit = "years" THEN MathRound(WMul(v.t, WInt(12)))
           ELSE MathRound(v.t)) \notin 1 .. 600
       \/ WLeq(v.p, WNum(1, 100))

\* C28: when handleCalculate has finished and its run on the current inputs
\* produced no schedule, emiDetails is null and schedule is empty; otherwise
\* emiDetails and schedule are the ones of the current inputs (the principal
\* of emiDetails and the opening balance of the first row are the amount
\* entered).
C28_NoStaleResult ==
    Settled =>
       IF ProducesNoSchedule(Closure(app))
       THEN app.emiDetails = <<>> /\ app.schedule = <<>>
       ELSE /\ app.emiDetails # <<>>
            /\ app.schedule # <<>>
            /\ app.emiDetails[1].principal = OrZero(parseFloat(app.loanAmount))
            /\ app.schedule[1].openingBalance = OrZero(parseFloat(app.loanAmount))

\* the step of a handler that changes the loan amount, the rate, the tenure
\* or the tenure unit, or that sets the prepayments
InputChange ==
    /\ pc = "idle" /\ pc' = "idle"
    /\ Closure(app') # Closure(app) \/ PrepaymentCall

\* C29: the calculation is debounced.  At most one timeout is pending at any
\* time, its delay is 500 ms and the inputs its calculation will use are the
\* current ones; each change of the loan amount, the rate, the tenure, the
\* tenure unit or the prepayments cancels every pending timeout and starts one
\* new timeout; and a timeout that runs its calculation runs it on the
\* current inputs.
C29_Debounced ==
    /\ [](/\ Cardinality(timers) <= 1
          /\ \A t \in timers :
                /\ t.delay = 500
                /\ t.inputs = Closure(app)
                /\ t.id = handler)
    /\ [][/\ InputChange =>
                /\ \A t \in timers : \A u \in timers' : u.id # t.id
                /\ timers' = {[id |-> handler', delay |-> 500,
                               inputs |-> Closure(app')]}
          /\ \A t \in timers : Fires(t) => t.inputs = Closure(app)]_vars

\* a change of the loan amount before any calculation has run: the timeout
\* of the first render is cancelled, the second one is pending
C29_Witness ==
    /\ pc = "idle"
    /\ handler = 2
    /\ app.loanAmount = Chars0
    /\ app.emiDetails = <<>>
    /\ app.errors = NoErrors
    /\ timers = {Timeout(2, app)}

=============================================================================
